---- MODULE Spec2Model ----
(***************************************************************************)
(* Model of ishitaakolkar/anomalydetection: the daily aggregation and      *)
(* gap-filling of sales rows (app.preprocess_data, fixed 180-day window;   *)
(* anomaly_detection.main, full span per entity), the adapter calls to the *)
(* external anomaly/forecast service, the join of the service's records    *)
(* with the regularized series and the insight cards of app.main.          *)
(*                                                                         *)
(* A timestamp is a record [day, tod]: a calendar day (an integer, days    *)
(* since an epoch) and a time of day in minutes since midnight.  A data    *)
(* frame is a sequence of rows; a row is a record of its columns.          *)
(***************************************************************************)
EXTENDS Integers, Sequences, FiniteSets, TLC

\* ---------------------------------------------------------------- inputs

\* Entity ids of the raw input, and their ascending (string) order.
IdSeq == <<"A", "B">>
Ids == {IdSeq[i] : i \in DOMAIN IdSeq}

\* Calendar days and times of day (minutes since midnight) of raw rows.
DayChoices == {0, 2, 183}
TimesOfDay == {0, 720}
Values == {5, 10}

\* Largest number of raw rows of an input file.
MaxRows == 2

\* pd.Timedelta(days=180)
WindowDays == 180

\* A cell that may be missing is <<v>>, or NaN when it holds no value.
NaN == <<>>
Cell(v) == <<v>>

\* The missing timestamp: no time of day is negative.
NaT == [day |-> 0, tod |-> -1]

Timestamps == [day : DayChoices, tod : TimesOfDay]
RawRows == [unique_id : Ids, ds : Timestamps, y : Values]
RawInputs == UNION {[1..n -> RawRows] : n \in 0..MaxRows}

VARIABLES
    raw,          \* the rows read from the CSV, columns renamed to ds, y, unique_id
    mode,         \* which regularizer ran: "fixed" (app) or "full" (anomaly_detection)
    pc,           \* position of the run
    daily_sales,  \* the regularized frame
    err,          \* the exception the run raised and nothing caught, or "none"
    api_key,          \* app.main: the credential of the sidebar
    selected_items,   \* app.main: the entity ids selected
    show_forecast,    \* app.main: the forecast toggle
    calls,            \* how often each operation of the external service was invoked
    anomalies_df,     \* the service's anomaly records
    merged_df,        \* daily_sales joined with anomalies_df
    forecast_df,      \* the service's forecast, or None
    messages,         \* what the page shows: infos, warnings, errors, successes
    insights,         \* the insight cards, in the order shown
    exc,              \* the exception app.main caught, or "none"
    ret               \* the last return of an adapter function called on its own

rvars == <<raw, mode, daily_sales, err>>
hvars == <<api_key, selected_items, show_forecast, calls, anomalies_df, merged_df,
           forecast_df, messages, insights, exc, ret>>
vars == <<rvars, pc, hvars>>

\* ------------------------------------------------------------ time, order

TsLess(a, b) == a.day < b.day \/ (a.day = b.day /\ a.tod < b.tod)

\* Series.dt.date
DtDate(ts) == ts.day

\* pd.to_datetime of a date: midnight of that day
DateToDatetime(d) == [day |-> d, tod |-> 0]

\* The latest ds of the rows lo..hi of df (lo <= hi).
RECURSIVE MaxTsRange(_, _, _)
MaxTsRange(df, lo, hi) ==
    IF lo = hi THEN df[lo].ds
    ELSE LET mid == (lo + hi) \div 2
             a == MaxTsRange(df, lo, mid)
             b == MaxTsRange(df, mid + 1, hi)
         IN  IF TsLess(a, b) THEN b ELSE a

\* The earliest ds of the rows lo..hi of df (lo <= hi).
RECURSIVE MinTsRange(_, _, _)
MinTsRange(df, lo, hi) ==
    IF lo = hi THEN df[lo].ds
    ELSE LET mid == (lo + hi) \div 2
             a == MinTsRange(df, lo, mid)
             b == MinTsRange(df, mid + 1, hi)
         IN  IF TsLess(b, a) THEN b ELSE a

\* Series.max() of the ds column; NaT on an empty column
MaxTs(df) == IF df = <<>> THEN NaT ELSE MaxTsRange(df, 1, Len(df))

\* Series.min() of the ds column; NaT on an empty column
MinTs(df) == IF df = <<>> THEN NaT ELSE MinTsRange(df, 1, Len(df))

\* ts - pd.Timedelta(days=n): the time of day is kept
MinusDays(ts, n) ==
    IF ts = NaT THEN NaT ELSE [day |-> ts.day - n, tod |-> ts.tod]

\* A date range that leaves out its last day.
DateRangeOpenEnd(start, end) ==
    LET last == IF end.tod >= start.tod THEN end.day ELSE end.day - 1
        n == IF last > start.day THEN last - start.day ELSE 0
    IN  [i \in 1..n |-> [day |-> start.day + (i - 1), tod |-> start.tod]]

\* pd.date_range(start, end, freq='D'): start, start + 1 day, ... while <= end
DateRange(start, end) ==
    LET last == IF end.tod >= start.tod THEN end.day ELSE end.day - 1
        n == IF last >= start.day THEN last - start.day + 1 ELSE 0
    IN  [i \in 1..n |-> [day |-> start.day + (i - 1), tod |-> start.tod]]

IdRank(id) == CHOOSE i \in DOMAIN IdSeq : IdSeq[i] = id

\* the order of sort_values(['unique_id', 'ds'])
RowLess(r, s) ==
    \/ IdRank(r.unique_id) < IdRank(s.unique_id)
    \/ r.unique_id = s.unique_id /\ TsLess(r.ds, s.ds)

\* Two sorted frames merged into one, a row of a before an equal row of b.
MergeSorted(a, b) ==
    IF a = <<>> \/ b = <<>> \/ ~RowLess(b[1], a[Len(a)]) THEN a \o b
    ELSE LET posA(i) == i + Cardinality({j \in DOMAIN b : RowLess(b[j], a[i])})
             posB(j) == j + Cardinality({i \in DOMAIN a : ~RowLess(b[j], a[i])})
         IN  [k \in 1..(Len(a) + Len(b)) |->
                IF \E i \in DOMAIN a : posA(i) = k
                THEN a[CHOOSE i \in DOMAIN a : posA(i) = k]
                ELSE b[CHOOSE j \in DOMAIN b : posB(j) = k]]

\* DataFrame.sort_values(['unique_id', 'ds']), as a merge sort
RECURSIVE SortValues(_)
SortValues(df) ==
    IF Len(df) <= 1 THEN df
    ELSE LET mid == Len(df) \div 2
         IN  MergeSorted(SortValues(SubSeq(df, 1, mid)),
                         SortValues(SubSeq(df, mid + 1, Len(df))))

\* The frames f[lo], ..., f[hi] one after the other.
RECURSIVE ConcatRange(_, _, _)
ConcatRange(f, lo, hi) ==
    IF lo > hi THEN <<>>
    ELSE IF lo = hi THEN f[lo]
    ELSE LET mid == (lo + hi) \div 2
         IN  ConcatRange(f, lo, mid) \o ConcatRange(f, mid + 1, hi)

\* ------------------------------------------------------ daily aggregation

RECURSIVE SumY(_, _)
SumY(df, idx) ==
    IF idx = {} THEN 0
    ELSE LET i == CHOOSE j \in idx : TRUE
         IN  df[i].y + SumY(df, idx \ {i})

\* the rows of one (unique_id, date) group
GroupRows(df, uid, d) ==
    {i \in DOMAIN df : df[i].unique_id = uid /\ DtDate(df[i].ds) = d}

RECURSIVE SetToSeq(_)
SetToSeq(S) ==
    IF S = {} THEN <<>>
    ELSE LET x == CHOOSE y \in S : TRUE IN <<x>> \o SetToSeq(S \ {x})

\* df.groupby(['unique_id', df['ds'].dt.date]).agg({'y': 'sum'}).reset_index(),
\* then ds back to datetime: one row per group, sorted by the group keys
DailyAgg(df) ==
    LET keys == {<<df[i].unique_id, DtDate(df[i].ds)>> : i \in DOMAIN df}
        rows == {[unique_id |-> k[1], ds |-> DateToDatetime(k[2]),
                  y |-> SumY(df, GroupRows(df, k[1], k[2]))] : k \in keys}
    IN  SortValues(SetToSeq(rows))

\* Series.unique(): the distinct values in order of first appearance
RECURSIVE Unique(_)
Unique(s) ==
    IF s = <<>> THEN <<>>
    ELSE LET u == Unique(SubSeq(s, 1, Len(s) - 1))
         IN  IF \E i \in DOMAIN u : u[i] = s[Len(s)] THEN u ELSE Append(u, s[Len(s)])

UniqueIds(df) == Unique([i \in DOMAIN df |-> df[i].unique_id])

\* df[df['unique_id'] == uid]
SelectId(df, uid) == SelectSeq(df, LAMBDA r : r.unique_id = uid)

\* Series.fillna(0)
FillNa(c) == IF c = NaN THEN 0 ELSE c[1]

\* pd.concat(dfs)
Concat(dfs) == ConcatRange(dfs, 1, Len(dfs))

\* ------------------------------------------- fixed-window mode (app.py)

\* master_df.merge(uid_data, on='ds', how='left'), unique_id set, y filled:
\* one row per master date and matching row of uid_data, NaN without a match
LeftMergeOnDs(master, uid_data) ==
    LET here(k) ==
            LET m == master[k]
                hits == SelectSeq(uid_data, LAMBDA r : r.ds = m)
            IN  IF hits = <<>> THEN <<[ds |-> m, y |-> NaN]>>
                ELSE [i \in DOMAIN hits |-> [ds |-> m, y |-> Cell(hits[i].y)]]
    IN  ConcatRange([k \in DOMAIN master |-> here(k)], 1, Len(master))

\* Padding onto the entity's own first-to-last span instead of the master range.
UidPaddedOwnSpan(master, daily, uid) ==
    LET uid_data == SelectId(daily, uid)
        merged == LeftMergeOnDs(DateRange(MinTs(uid_data), MaxTs(uid_data)), uid_data)
    IN  [i \in DOMAIN merged |->
            [unique_id |-> uid, ds |-> merged[i].ds, y |-> FillNa(merged[i].y)]]

UidPadded(master, daily, uid) ==
    LET merged == LeftMergeOnDs(master, SelectId(daily, uid))
    IN  [i \in DOMAIN merged |->
            [unique_id |-> uid, ds |-> merged[i].ds, y |-> FillNa(merged[i].y)]]

\* the date that anchors the window: working_df['ds'].max()
MaxDate(working_df) == MaxTs(working_df)

CutoffDate(max_date) == MinusDays(max_date, WindowDays)

\* preprocess_data: the frame returned, or the exception raised
PreprocessResult(working_df) ==
    LET max_date == MaxDate(working_df)
        cutoff_date == CutoffDate(max_date)
    IN  IF max_date = NaT
        THEN [err |-> "ValueError", df |-> <<>>]   \* date_range: start/end NaT
        ELSE LET master == DateRange(cutoff_date, max_date)
                 daily == DailyAgg(working_df)
                 all_ids == UniqueIds(daily)
                 dfs == [k \in DOMAIN all_ids |-> UidPadded(master, daily, all_ids[k])]
             IN  [err |-> "none", df |-> SortValues(Concat(dfs))]

\* ------------------------------------ full-span mode (anomaly_detection.py)

\* mall_df.set_index('ds').resample('D').asfreq().reset_index(): every day
\* from the first to the last ds of the mall, NaN where it has no row
Resample(mall_df) ==
    LET days == DateRange(MinTs(mall_df), MaxTs(mall_df))
    IN  [i \in DOMAIN days |->
            LET hits == SelectSeq(mall_df, LAMBDA r : r.ds = days[i])
            IN  [ds |-> days[i], y |-> IF hits = <<>> THEN NaN ELSE Cell(hits[1].y)]]

MallRegular(daily, mall) ==
    LET mall_df == Resample(SelectId(daily, mall))
    IN  [i \in DOMAIN mall_df |->
            [unique_id |-> mall, ds |-> mall_df[i].ds, y |-> FillNa(mall_df[i].y)]]

\* anomaly_detection.main, steps 2 and 3
FullSpanResult(df) ==
    LET daily == DailyAgg(df)
        all_malls == UniqueIds(daily)
        dfs == [k \in DOMAIN all_malls |-> MallRegular(daily, all_malls[k])]
    IN  IF dfs = <<>>
        THEN [err |-> "ValueError", df |-> <<>>]   \* pd.concat: no objects
        ELSE [err |-> "none", df |-> SortValues(Concat(dfs))]


\* ------------------------------------------------ frames with named columns

\* A frame other than daily_sales is a record of its column names, in order,
\* and its rows; a row maps every column to a cell.
EmptyFrame == [columns |-> <<>>, rows |-> <<>>]
None == [none |-> TRUE]

SeqToSet(s) == {s[i] : i \in DOMAIN s}

\* The columns of the regularized frame.
BaseColumns == <<"ds", "unique_id", "y">>

\* on=['unique_id', 'ds']
JoinKeys == {"unique_id", "ds"}

\* The join with the base columns renamed on a collision, as pandas' default
\* suffixes ('_x', '_y') do; the service's value becomes the only 'y_anomaly'.
MergeSuffixesBoth == <<"_x", "_anomaly">>

\* suffixes=('', '_anomaly')
MergeSuffixes == <<"", "_anomaly">>

\* left.merge(right, on=['unique_id', 'ds'], how=how, suffixes=suffixes), left
\* being a frame of BaseColumns: the rows of left in order, each with every
\* row of right of the same keys; how='left' keeps a row of left without one
Merge(left, right, how, suffixes) ==
    LET lcols == BaseColumns
        rrest == SelectSeq(right.columns, LAMBDA c : c \notin JoinKeys)
        overlap == (SeqToSet(lcols) \cap SeqToSet(rrest)) \ JoinKeys
        lname(c) == IF c \in overlap THEN c \o suffixes[1] ELSE c
        rname(c) == IF c \in overlap THEN c \o suffixes[2] ELSE c
        columns == [i \in DOMAIN lcols |-> lname(lcols[i])]
                   \o [i \in DOMAIN rrest |-> rname(rrest[i])]
        fromLeft(c) == \E lc \in SeqToSet(lcols) : lname(lc) = c
        leftCell(l, c) == Cell(l[CHOOSE lc \in SeqToSet(lcols) : lname(lc) = c])
        joined(l, r) ==
            [c \in SeqToSet(columns) |->
                IF fromLeft(c) THEN leftCell(l, c)
                ELSE r[CHOOSE rc \in SeqToSet(rrest) : rname(rc) = c]]
        unmatched(l) ==
            [c \in SeqToSet(columns) |-> IF fromLeft(c) THEN leftCell(l, c) ELSE NaN]
        here(k) ==
            LET l == left[k]
                m == SelectSeq(right.rows, LAMBDA r :
                        r.unique_id = Cell(l.unique_id) /\ r.ds = Cell(l.ds))
            IN  IF m = <<>>
                THEN (IF how = "left" THEN <<unmatched(l)>> ELSE <<>>)
                ELSE [i \in DOMAIN m |-> joined(l, m[i])]
    IN  [columns |-> columns,
         rows |-> ConcatRange([k \in DOMAIN left |-> here(k)], 1, Len(left))]

\* df.rename(columns={old: new})
Rename(df, old, new) ==
    LET columns == [i \in DOMAIN df.columns |->
                        IF df.columns[i] = old THEN new ELSE df.columns[i]]
    IN  [columns |-> columns,
         rows |-> [k \in DOMAIN df.rows |->
                    [c \in SeqToSet(columns) |->
                        df.rows[k][IF c = new THEN old ELSE c]]]]

\* anomaly_detection.main: 'y' restored from 'y_anomaly' when the join lost it
PromoteValue(df) ==
    IF "y" \notin SeqToSet(df.columns) /\ "y_anomaly" \in SeqToSet(df.columns)
    THEN Rename(df, "y_anomaly", "y")
    ELSE df

\* --------------------------------------------------- the external service

\* The service answers for the last RespDays days of every series it is sent.
RespDays == 4

\* The interval [lower, upper] of one answer.
Bands == {<<-5, -1>>, <<6, 8>>}

\* The columns of an answer: with or without the value column, or malformed
\* (no anomaly flags and no bounds). An answer may also hold no row at all.
SchemaWithY ==
    <<"unique_id", "ds", "y", "TimeGPT", "anomaly", "TimeGPT-lo-99", "TimeGPT-hi-99">>
SchemaNoY ==
    <<"unique_id", "ds", "TimeGPT", "anomaly", "TimeGPT-lo-99", "TimeGPT-hi-99">>
SchemaMalformed == <<"unique_id", "ds", "TimeGPT">>
Schemas == {SchemaWithY, SchemaNoY, SchemaMalformed}

\* The service's copy of a value, kept apart from the value sent.
ServiceValue(y) == y + 1

\* The rows of the last RespDays days of every entity of subset_df.
TailRows(subset_df) ==
    LET ids == {subset_df[i].unique_id : i \in DOMAIN subset_df}
        last == [id \in ids |-> MaxTs(SelectId(subset_df, id)).day]
    IN  SelectSeq(subset_df, LAMBDA r : r.ds.day > last[r.unique_id] - RespDays)

\* One answer of detect_anomalies: the rows flagged are those at `flagged`.
AnomalyRecords(tail, schema, band, flagged) ==
    [columns |-> schema,
     rows |-> [k \in DOMAIN tail |->
        [c \in SeqToSet(schema) |->
            CASE c = "unique_id" -> Cell(tail[k].unique_id)
              [] c = "ds" -> Cell(tail[k].ds)
              [] c = "y" -> Cell(ServiceValue(tail[k].y))
              [] c = "TimeGPT" -> Cell(0)
              [] c = "anomaly" -> Cell(IF k \in flagged THEN 1 ELSE 0)
              [] c = "TimeGPT-lo-99" -> Cell(band[1])
              [] c = "TimeGPT-hi-99" -> Cell(band[2])]]]

DetectResponses(subset_df) ==
    LET tail == TailRows(subset_df)
    IN  {AnomalyRecords(tail, s, b, f) :
            s \in Schemas \ {SchemaMalformed}, b \in Bands, f \in SUBSET DOMAIN tail}
        \cup {AnomalyRecords(tail, SchemaMalformed, <<0, 0>>, {})}
        \cup {AnomalyRecords(<<>>, SchemaNoY, <<0, 0>>, {})}

\* What the service's detect_anomalies may do with a request: raise, or answer.
ServiceDetect(subset_df, key) ==
    IF key # "key"
    THEN {[raised |-> "AuthenticationError", result |-> EmptyFrame]}
    ELSE {[raised |-> "ServiceError", result |-> EmptyFrame]}
         \cup {[raised |-> "none", result |-> f] : f \in DetectResponses(subset_df)}

\* horizon=7
Horizon == 7

\* The columns of a forecast asked with level=[80, 90]: the point forecast and
\* the bounds of both levels.
ForecastColumns ==
    <<"unique_id", "ds", "TimeGPT", "TimeGPT-lo-90", "TimeGPT-lo-80",
      "TimeGPT-hi-80", "TimeGPT-hi-90">>

\* The forecast: Horizon days after the last day of every series sent.
ForecastRecords(subset_df) ==
    LET ids == SetToSeq({subset_df[i].unique_id : i \in DOMAIN subset_df})
        last == [k \in DOMAIN ids |-> MaxTs(SelectId(subset_df, ids[k]))]
    IN  [columns |-> ForecastColumns,
         rows |-> [n \in 1..(Len(ids) * Horizon) |->
            LET k == ((n - 1) \div Horizon) + 1
                h == ((n - 1) % Horizon) + 1
            IN  [c \in SeqToSet(ForecastColumns) |->
                    CASE c = "unique_id" -> Cell(ids[k])
                      [] c = "ds" ->
                            Cell([day |-> last[k].day + h, tod |-> last[k].tod])
                      [] c = "TimeGPT" -> Cell(0)
                      [] c \in {"TimeGPT-lo-90", "TimeGPT-lo-80"} -> Cell(-1)
                      [] c \in {"TimeGPT-hi-80", "TimeGPT-hi-90"} -> Cell(1)]]]

ServiceForecast(subset_df, key) ==
    IF key # "key"
    THEN {[raised |-> "AuthenticationError", result |-> EmptyFrame]}
    ELSE {[raised |-> "ServiceError", result |-> EmptyFrame],
          [raised |-> "none", result |-> ForecastRecords(subset_df)]}

\* ------------------------------------------------- the adapter (app.py)

\* df[df['unique_id'].isin(selected_items)]
SubsetDf(df, selected) == SelectSeq(df, LAMBDA r : r.unique_id \in selected)

\* detect_anomalies without its empty-subset return.
DetectOutcomesNoGuard(df, selected, key) ==
    {[invoked |-> TRUE, raised |-> o.raised, result |-> o.result] :
        o \in ServiceDetect(SubsetDf(df, selected), key)}

\* detect_anomalies(df, level, selected_items, api_key): what a call may do
DetectOutcomes(df, selected, key) ==
    LET subset_df == SubsetDf(df, selected)
    IN  IF subset_df = <<>>
        THEN {[invoked |-> FALSE, raised |-> "none", result |-> EmptyFrame]}
        ELSE {[invoked |-> TRUE, raised |-> o.raised, result |-> o.result] :
                o \in ServiceDetect(subset_df, key)}

\* generate_forecast(df, selected_items, api_key): what a call may do
ForecastOutcomes(df, selected, key) ==
    LET subset_df == SubsetDf(df, selected)
    IN  IF subset_df = <<>>
        THEN {[invoked |-> FALSE, raised |-> "none", result |-> EmptyFrame]}
        ELSE {[invoked |-> TRUE, raised |-> o.raised, result |-> o.result] :
                o \in ServiceForecast(subset_df, key)}

\* ---------------------------------------------------------------- actions

\* No request is being served.
Idle ==
    /\ api_key = ""
    /\ selected_items = {}
    /\ show_forecast = FALSE
    /\ calls = [detect |-> 0, forecast |-> 0]
    /\ anomalies_df = None
    /\ merged_df = None
    /\ forecast_df = None
    /\ messages = <<>>
    /\ insights = <<>>
    /\ exc = "none"
    /\ ret = None

Init ==
    /\ raw \in RawInputs
    /\ mode = "none"
    /\ pc = "start"
    /\ daily_sales = <<>>
    /\ err = "none"
    /\ Idle

Finish(m, res) ==
    /\ mode' = m
    /\ daily_sales' = res.df
    /\ err' = res.err
    /\ pc' = IF res.err = "none" THEN "done" ELSE "raised"
    /\ UNCHANGED <<raw, hvars>>

PreprocessData ==
    /\ pc = "start"
    /\ Finish("fixed", PreprocessResult(raw))

AggregateFullSpan ==
    /\ pc = "start"
    /\ Finish("full", FullSpanResult(raw))

Next == PreprocessData \/ AggregateFullSpan

Spec == Init /\ [][Next]_vars

\* ------------------------------------------ what the raw input holds

\* What the raw input holds, read off the raw rows directly.
RawIds == {raw[i].unique_id : i \in DOMAIN raw}
RawDays(id) == {raw[i].ds.day : i \in {j \in DOMAIN raw : raw[j].unique_id = id}}
AllRawDays == {raw[i].ds.day : i \in DOMAIN raw}
SetMax(S) == CHOOSE x \in S : \A y \in S : y <= x
SetMin(S) == CHOOSE x \in S : \A y \in S : x <= y
GlobalMaxDay == SetMax(AllRawDays)

RawOn(id, d) == {i \in DOMAIN raw : raw[i].unique_id = id /\ raw[i].ds.day = d}
RawSum(id, d) == SumY(raw, RawOn(id, d))

\* The window [start, end] of an entity, in calendar days.
WinStart(id) == IF mode = "fixed" THEN GlobalMaxDay - WindowDays ELSE SetMin(RawDays(id))
WinEnd(id) == IF mode = "fixed" THEN GlobalMaxDay ELSE SetMax(RawDays(id))

OutRows(id) == {i \in DOMAIN daily_sales : daily_sales[i].unique_id = id}
OutDays(id) == {DtDate(daily_sales[i].ds) : i \in OutRows(id)}
OutIds == {daily_sales[i].unique_id : i \in DOMAIN daily_sales}


\* ------------------------------------------- the insight cards (app.py)

\* The column names that contain 'hi', and those that contain 'lo'.
HiNames == {"TimeGPT-hi-99"}
LoNames == {"TimeGPT-lo-99"}

\* anomalous_data.head(6)
MaxCards == 6

Ratio(n, d) == [num |-> n, den |-> d]

\* A classification that divides by the lower bound in a spike.
ClassifyByLower(actual, lower_bound, upper_bound) ==
    IF actual > upper_bound
    THEN [direction |-> "Spike",
          magnitude |-> IF upper_bound > 0 THEN Ratio(actual, lower_bound)
                        ELSE Ratio(actual, 1)]
    ELSE [direction |-> "Dip",
          magnitude |-> IF actual > 0 THEN Ratio(lower_bound, actual) ELSE Ratio(0, 1)]

\* Spike or Dip, and the magnitude as a fraction num / den
Classify(actual, lower_bound, upper_bound) ==
    IF actual > upper_bound
    THEN [direction |-> "Spike",
          magnitude |-> IF upper_bound > 0 THEN Ratio(actual, upper_bound)
                        ELSE Ratio(actual, 1)]
    ELSE [direction |-> "Dip",
          magnitude |-> IF actual > 0 THEN Ratio(lower_bound, actual) ELSE Ratio(0, 1)]

\* merged_df[merged_df['anomaly'] == 1]
Anomalous(df) == SelectSeq(df.rows, LAMBDA r : r.anomaly = Cell(1))

\* The orders sort_values('ds', ascending=False) may leave the rows S in: the
\* sort is not stable, so rows of one day come in any order.
RECURSIVE DescOrders(_)
DescOrders(S) ==
    IF S = {} THEN {<<>>}
    ELSE LET top == {r \in S : \A q \in S : ~TsLess(r.ds[1], q.ds[1])}
         IN  UNION {{<<r>> \o t : t \in DescOrders(S \ {r})} : r \in top}

\* A sort that keeps the order of the frame: entity, then day ascending.
KeepOrder(df) == {Anomalous(df)}

\* anomalous_data: the flagged rows, latest day first
AnomalousData(df) == DescOrders(SeqToSet(Anomalous(df)))

\* The first n rows, all of them when there are fewer.
HeadRows(rows, n) == SubSeq(rows, 1, IF Len(rows) < n THEN Len(rows) ELSE n)

\* The card of one row; none when the frame has no bound columns.
InsightOf(df, row) ==
    LET hi_cols == SelectSeq(df.columns, LAMBDA c : c \in HiNames)
        lo_cols == SelectSeq(df.columns, LAMBDA c : c \in LoNames)
    IN  IF hi_cols = <<>> \/ lo_cols = <<>> THEN <<>>
        ELSE LET upper_bound == row[hi_cols[1]][1]
                 lower_bound == row[lo_cols[1]][1]
                 actual == row.y[1]
                 c == Classify(actual, lower_bound, upper_bound)
             IN  <<[ds |-> row.ds[1], unique_id |-> row.unique_id[1],
                    actual |-> actual, direction |-> c.direction,
                    magnitude |-> c.magnitude]>>

InsightCards(df, anomalous_data) ==
    LET head == HeadRows(anomalous_data, MaxCards)
    IN  ConcatRange([k \in DOMAIN head |-> InsightOf(df, head[k])], 1, Len(head))

RECURSIVE SumCol(_, _, _)
SumCol(rows, c, k) == IF k = 0 THEN 0 ELSE rows[k][c][1] + SumCol(rows, c, k - 1)

Msg(kind, text, n) == [kind |-> kind, text |-> text, n |-> n]

\* The note under the cards: "Showing top 6 of {len(anomalous_data)} total anomalies"
TruncationNote(anomalous_data) ==
    IF Len(anomalous_data) > MaxCards
    THEN <<Msg("info", "showing top 6 of n total", Len(anomalous_data))>>
    ELSE <<>>

\* ------------------------------------------------- app.main, one request

\* A handler that runs the failed statement again.
OnExceptionRetry(at) == at

\* Where control goes when a statement of the try block raises.
OnException(at) == "except"

\* A handler without the two guards: the analysis starts whatever the inputs.
Main_GuardsSkipped ==
    /\ pc = "guards"
    /\ pc' = "detect"
    /\ UNCHANGED <<rvars, api_key, selected_items, show_forecast, calls, anomalies_df,
                   merged_df, forecast_df, messages, insights, exc, ret>>

\* lines 231-237: the two guards before any analysis
Main_Guards ==
    /\ pc = "guards"
    /\ IF api_key = ""
       THEN /\ messages' = Append(messages, Msg("warning", "enter your API key", 0))
            /\ pc' = "returned"
       ELSE IF selected_items = {}
       THEN /\ messages' = Append(messages, Msg("warning", "select at least one", 0))
            /\ pc' = "returned"
       ELSE /\ messages' = messages
            /\ pc' = "detect"
    /\ UNCHANGED <<rvars, api_key, selected_items, show_forecast, calls, anomalies_df,
                   merged_df, forecast_df, insights, exc, ret>>

\* lines 242-243: detect_anomalies, then the inner join with daily_sales
Main_Detect ==
    /\ pc = "detect"
    /\ \E out \in DetectOutcomes(daily_sales, selected_items, api_key) :
        /\ calls' = [calls EXCEPT !.detect = @ + (IF out.invoked THEN 1 ELSE 0)]
        /\ IF out.raised # "none"
           THEN /\ exc' = out.raised
                /\ pc' = OnException("detect")
                /\ UNCHANGED <<anomalies_df, merged_df>>
           ELSE IF ~(JoinKeys \subseteq SeqToSet(out.result.columns))
           THEN /\ exc' = "KeyError"
                /\ pc' = OnException("detect")
                /\ anomalies_df' = out.result
                /\ UNCHANGED merged_df
           ELSE /\ anomalies_df' = out.result
                /\ merged_df' = Merge(daily_sales, out.result, "inner", MergeSuffixes)
                /\ pc' = "forecast"
                /\ UNCHANGED exc
    /\ UNCHANGED <<rvars, api_key, selected_items, show_forecast, forecast_df,
                   messages, insights, ret>>

\* lines 246-248: generate_forecast when the toggle is on
Main_Forecast ==
    /\ pc = "forecast"
    /\ IF show_forecast
       THEN \E out \in ForecastOutcomes(daily_sales, selected_items, api_key) :
                /\ calls' = [calls EXCEPT !.forecast = @ + (IF out.invoked THEN 1 ELSE 0)]
                /\ IF out.raised # "none"
                   THEN /\ exc' = out.raised
                        /\ pc' = OnException("forecast")
                        /\ UNCHANGED forecast_df
                   ELSE /\ forecast_df' = out.result
                        /\ pc' = "render"
                        /\ UNCHANGED exc
       ELSE /\ forecast_df' = None
            /\ pc' = "render"
            /\ UNCHANGED <<calls, exc>>
    /\ UNCHANGED <<rvars, api_key, selected_items, show_forecast, anomalies_df,
                   merged_df, messages, insights, ret>>

\* The orders a selection may be listed in.
RECURSIVE Orders(_)
Orders(S) ==
    IF S = {} THEN {<<>>}
    ELSE UNION {{<<x>> \o t : t \in Orders(S \ {x})} : x \in S}

\* lines 266-328: one chart per item selected, in the order of the selection.
\* With a forecast the loop reads forecast_df's unique_id, the last joined row
\* of the item (iloc[-1]), then ds, TimeGPT and the bounds of level 90. The
\* exception the first failing read raises, or "none".
RECURSIVE ChartLoop(_, _, _)
ChartLoop(items, merged, forecast) ==
    IF items = <<>> \/ forecast = None THEN "none"
    ELSE LET item_data == SelectSeq(merged.rows,
                                    LAMBDA r : r.unique_id = Cell(Head(items)))
             fcols == SeqToSet(forecast.columns)
         IN  IF "unique_id" \notin fcols THEN "KeyError"
             ELSE IF item_data = <<>> THEN "IndexError"
             ELSE IF ~({"ds", "TimeGPT", "TimeGPT-hi-90", "TimeGPT-lo-90"}
                            \subseteq fcols)
             THEN "KeyError"
             ELSE ChartLoop(Tail(items), merged, forecast)

\* lines 250-328: the KPIs (merged_df['anomaly'] at 253, forecast_df['TimeGPT']
\* at 259), then the charts. The exception raised, or "none".
KpisAndCharts(items, merged, forecast) ==
    IF "anomaly" \notin SeqToSet(merged.columns) THEN "KeyError"
    ELSE IF forecast # None /\ "TimeGPT" \notin SeqToSet(forecast.columns)
    THEN "KeyError"
    ELSE ChartLoop(items, merged, forecast)

\* lines 250-386: the KPIs, the charts, then the insight cards of the flagged
\* rows
Main_Render ==
    /\ pc = "render"
    /\ \E items \in Orders(selected_items) :
       LET raised == KpisAndCharts(items, merged_df, forecast_df)
       IN
       IF raised # "none"
       THEN /\ exc' = raised
            /\ pc' = OnException("render")
            /\ UNCHANGED <<messages, insights>>
       ELSE LET total_anomalies == SumCol(merged_df.rows, "anomaly", Len(merged_df.rows))
            IN  /\ pc' = "returned"
                /\ UNCHANGED exc
                /\ IF total_anomalies > 0
                   THEN \E anomalous_data \in AnomalousData(merged_df) :
                            /\ insights' = InsightCards(merged_df, anomalous_data)
                            /\ messages' = messages \o TruncationNote(anomalous_data)
                   ELSE /\ insights' = <<>>
                        /\ messages' = Append(messages, Msg("success", "no anomalies", 0))
    /\ UNCHANGED <<rvars, api_key, selected_items, show_forecast, calls, anomalies_df,
                   merged_df, forecast_df, ret>>

\* lines 390-391: whether str(e) holds 'api_key' or 'unauthorized'. The text
\* of a KeyError is the column's name and that of an IndexError is pandas' own;
\* the text of the service's exceptions is the service's to choose.
KeyWarnings(e) == IF e \in {"KeyError", "IndexError"} THEN {FALSE} ELSE BOOLEAN

\* lines 388-391: the failure shown as an error, then the warning about the
\* key when the failure's text names it; the request ends
Main_Except ==
    /\ pc = "except"
    /\ \E warn \in KeyWarnings(exc) :
        messages' = Append(messages, Msg("error", exc, 0))
                        \o (IF warn THEN <<Msg("warning", "check your API key", 0)>>
                            ELSE <<>>)
    /\ pc' = "returned"
    /\ UNCHANGED <<rvars, api_key, selected_items, show_forecast, calls, anomalies_df,
                   merged_df, forecast_df, insights, exc, ret>>

\* ------------------------------- anomaly_detection.main, steps 4 and 5

\* lines 51-59: the whole frame is sent; nothing catches a failure
Script_Detect ==
    /\ pc = "script_detect"
    /\ \E o \in ServiceDetect(daily_sales, api_key) :
        /\ calls' = [calls EXCEPT !.detect = @ + 1]
        /\ IF o.raised # "none"
           THEN /\ err' = o.raised
                /\ pc' = "raised"
                /\ UNCHANGED anomalies_df
           ELSE /\ anomalies_df' = o.result
                /\ pc' = "script_merge"
                /\ UNCHANGED err
    /\ UNCHANGED <<raw, mode, daily_sales, api_key, selected_items, show_forecast,
                   merged_df, forecast_df, messages, insights, exc, ret>>

\* lines 65-69: the left join, and 'y' restored when the join lost it
Script_Merge ==
    /\ pc = "script_merge"
    /\ merged_df' = PromoteValue(Merge(daily_sales, anomalies_df, "left", MergeSuffixes))
    /\ pc' = "script_report"
    /\ UNCHANGED <<rvars, api_key, selected_items, show_forecast, calls, anomalies_df,
                   forecast_df, messages, insights, exc, ret>>

\* lines 71-105: the plot and the summary read ds, y and anomaly of merged_df
\* (lines 77, 80, 94); a missing column is a KeyError nothing catches
Script_Report ==
    /\ pc = "script_report"
    /\ IF {"ds", "y", "anomaly"} \subseteq SeqToSet(merged_df.columns)
       THEN /\ pc' = "returned"
            /\ UNCHANGED err
       ELSE /\ err' = "KeyError"
            /\ pc' = "raised"
    /\ UNCHANGED <<raw, mode, daily_sales, api_key, selected_items, show_forecast,
                   calls, anomalies_df, merged_df, forecast_df, messages, insights,
                   exc, ret>>

\* The inputs of the requests served: two malls, sales on the last days.
Ts(d) == [day |-> d, tod |-> 0]
HandlerRaws ==
    {<<[unique_id |-> "A", ds |-> Ts(183), y |-> 10],
       [unique_id |-> "B", ds |-> Ts(183), y |-> 5],
       [unique_id |-> "A", ds |-> Ts(178), y |-> 5]>>}

ApiKeys == {"", "key", "bad"}

\* line 216: the info "Active Analysis Period", shown before preprocess_data
ActivePeriodInfo == Msg("info", "active analysis period", 0)

\* A request of the dashboard, daily_sales computed (line 218) and the info of
\* line 216 on the page, or a run of the script past its step 3.
InitApp ==
    /\ raw \in HandlerRaws
    /\ mode \in {"fixed", "full"}
    /\ daily_sales = IF mode = "fixed" THEN PreprocessResult(raw).df
                     ELSE FullSpanResult(raw).df
    /\ err = "none"
    /\ pc = IF mode = "fixed" THEN "guards" ELSE "script_detect"
    /\ api_key \in IF mode = "fixed" THEN ApiKeys ELSE {"key", "bad"}
    /\ selected_items \in IF mode = "fixed" THEN SUBSET RawIds ELSE {RawIds}
    /\ show_forecast \in IF mode = "fixed" THEN BOOLEAN ELSE {FALSE}
    /\ calls = [detect |-> 0, forecast |-> 0]
    /\ anomalies_df = None
    /\ merged_df = None
    /\ forecast_df = None
    /\ messages = IF mode = "fixed" THEN <<ActivePeriodInfo>> ELSE <<>>
    /\ insights = <<>>
    /\ exc = "none"
    /\ ret = None

NextApp ==
    \/ Main_Guards
    \/ Main_Detect
    \/ Main_Forecast
    \/ Main_Render
    \/ Main_Except
    \/ Script_Detect
    \/ Script_Merge
    \/ Script_Report

SpecApp == InitApp /\ [][NextApp]_vars

\* ------------------------------- the adapter functions called on their own

\* Ids a caller may pass: those of the data and one the data does not hold.
CallerIds == Ids \cup {"Z"}

Adapter_Detect ==
    /\ pc = "adapter"
    /\ \E sel \in SUBSET CallerIds :
        \E out \in DetectOutcomes(daily_sales, sel, api_key) :
            /\ calls' = [calls EXCEPT !.detect = @ + (IF out.invoked THEN 1 ELSE 0)]
            /\ ret' = [fn |-> "detect_anomalies", selected |-> sel,
                       raised |-> out.raised, result |-> out.result]
    /\ pc' = "adapter_returned"
    /\ UNCHANGED <<rvars, api_key, selected_items, show_forecast, anomalies_df,
                   merged_df, forecast_df, messages, insights, exc>>

Adapter_Forecast ==
    /\ pc = "adapter"
    /\ \E sel \in SUBSET CallerIds :
        \E out \in ForecastOutcomes(daily_sales, sel, api_key) :
            /\ calls' = [calls EXCEPT !.forecast = @ + (IF out.invoked THEN 1 ELSE 0)]
            /\ ret' = [fn |-> "generate_forecast", selected |-> sel,
                       raised |-> out.raised, result |-> out.result]
    /\ pc' = "adapter_returned"
    /\ UNCHANGED <<rvars, api_key, selected_items, show_forecast, anomalies_df,
                   merged_df, forecast_df, messages, insights, exc>>

InitAdapter ==
    /\ raw \in HandlerRaws
    /\ mode = "fixed"
    /\ daily_sales = PreprocessResult(raw).df
    /\ err = "none"
    /\ pc = "adapter"
    /\ api_key \in {"key", "bad"}
    /\ selected_items = {}
    /\ show_forecast = FALSE
    /\ calls = [detect |-> 0, forecast |-> 0]
    /\ anomalies_df = None
    /\ merged_df = None
    /\ forecast_df = None
    /\ messages = <<>>
    /\ insights = <<>>
    /\ exc = "none"
    /\ ret = None

NextAdapter == Adapter_Detect \/ Adapter_Forecast

SpecAdapter == InitAdapter /\ [][NextAdapter]_vars

\* ------------------------------------- get_business_tip (app.py 125-145)

Uppercase == "ABCDEFGHIJKLMNOPQRSTUVWXYZ"
Lowercase == "abcdefghijklmnopqrstuvwxyz"

\* str.lower of one character
LowerChar(c) ==
    IF \E i \in 1..Len(Uppercase) : SubSeq(Uppercase, i, i) = c
    THEN LET i == CHOOSE j \in 1..Len(Uppercase) : SubSeq(Uppercase, j, j) = c
         IN  SubSeq(Lowercase, i, i)
    ELSE c

\* str(category).lower(); the category is a string, which str leaves as it is
RECURSIVE StrLower(_)
StrLower(s) ==
    IF Len(s) = 0 THEN ""
    ELSE LowerChar(SubSeq(s, 1, 1)) \o StrLower(SubSeq(s, 2, Len(s)))

\* kw in s
Contains(s, kw) ==
    \E i \in 1..(Len(s) - Len(kw) + 1) : SubSeq(s, i, i + Len(kw) - 1) = kw

\* f"{magnitude:.1f}" of the fraction num / den: one decimal, the nearest, a
\* tie going to the even digit. The magnitudes used have denominators 1, 2, 4
\* or 8, quotients a float holds exactly.
Fmt1(magnitude) ==
    LET a == IF magnitude.num < 0 THEN -magnitude.num ELSE magnitude.num
        q == (10 * a) \div magnitude.den
        r == (10 * a) % magnitude.den
        t == IF 2 * r > magnitude.den THEN q + 1
             ELSE IF 2 * r < magnitude.den THEN q
             ELSE IF q % 2 = 0 THEN q ELSE q + 1
    IN  (IF magnitude.num < 0 THEN "-" ELSE "") \o ToString(t \div 10) \o "."
            \o ToString(t % 10)

\* The recommendation, as the text after the leading emoji and its space.
get_business_tip(category, direction, magnitude) ==
    LET cat == StrLower(category)
    IN  IF direction = "Spike"
        THEN IF Contains(cat, "beauty") \/ Contains(cat, "cosmetic")
             THEN "**Opportunity:** Viral trend or influencer mention? Check social mentions and ensure shelf availability."
             ELSE IF Contains(cat, "electronic") \/ Contains(cat, "tech")
             THEN "**Opportunity:** New product launch or tech event? Consider bundling accessories for this high-demand period."
             ELSE IF Contains(cat, "clothing") \/ Contains(cat, "fashion")
             THEN "**Opportunity:** Seasonal shift? Double down on similar styles in your upcoming marketing campaign."
             ELSE "**Opportunity:** Unusual " \o Fmt1(magnitude)
                    \o "x growth! Analyze marketing channels and consider extending current promotions."
        ELSE IF Contains(cat, "beauty") \/ Contains(cat, "cosmetic")
             THEN "**Risk:** Stock-out or competitor sale? Verify inventory levels and check for regional price wars."
             ELSE IF Contains(cat, "electronic") \/ Contains(cat, "tech")
             THEN "**Risk:** Supply chain delay? Monitor shipping logs and provide proactive updates to waiting customers."
             ELSE IF Contains(cat, "clothing") \/ Contains(cat, "fashion")
             THEN "**Risk:** Out-of-season inventory? Consider a flash clearance to move slow-moving stock."
             ELSE "**Risk:** Sales dropped significantly below expected levels. Check for data entry errors or operational disruptions."

\* The pieces the category labels are put together from, and how many a label has.
Fragments == {"Beauty", "COSMETIC", "Electronic", "Tech", "Clothing", "fashion",
              "Grocery ", "s"}
MaxFragments == 2

RECURSIVE Join(_)
Join(fs) == IF fs = <<>> THEN "" ELSE Head(fs) \o Join(Tail(fs))

Categories == {Join(fs) : fs \in UNION {[1..n -> Fragments] : n \in 0..MaxFragments}}
Directions == {"Spike", "Dip"}
Magnitudes == {Ratio(0, 1), Ratio(5, 4), Ratio(15, 8), Ratio(12, 1)}

\* A call of get_business_tip with the arguments held in ret.
Tip_Call ==
    /\ pc = "tip"
    /\ ret' = [fn |-> "get_business_tip", category |-> ret.category,
               direction |-> ret.direction, magnitude |-> ret.magnitude,
               result |-> get_business_tip(ret.category, ret.direction, ret.magnitude)]
    /\ pc' = "tip_returned"
    /\ UNCHANGED <<rvars, api_key, selected_items, show_forecast, calls, anomalies_df,
                   merged_df, forecast_df, messages, insights, exc>>

InitTip ==
    /\ raw = <<>>
    /\ mode = "fixed"
    /\ daily_sales = EmptyFrame
    /\ err = "none"
    /\ pc = "tip"
    /\ api_key = ""
    /\ selected_items = {}
    /\ show_forecast = FALSE
    /\ calls = [detect |-> 0, forecast |-> 0]
    /\ anomalies_df = None
    /\ merged_df = None
    /\ forecast_df = None
    /\ messages = <<>>
    /\ insights = <<>>
    /\ exc = "none"
    /\ ret \in [fn : {"args"}, category : Categories, direction : Directions,
                magnitude : Magnitudes]

NextTip == Tip_Call

SpecTip == InitTip /\ [][NextTip]_vars

\* ----------------------------------------------- regularization: claims

\* C1: in both modes the regularized frame holds, for every entity id of the
\* input, exactly one row for each calendar day of the entity's window: as many
\* rows as the window has days, (end - start).days + 1, and every day of the
\* window among them, so no day is missing and none occurs twice.
C1_OneRowPerDay ==
    pc = "done" =>
        /\ OutIds = RawIds
        /\ \A id \in RawIds :
            /\ Cardinality(OutRows(id)) = (WinEnd(id) - WinStart(id)) + 1
            /\ OutDays(id) = WinStart(id)..WinEnd(id)

\* C1 witness: a fixed-window run over two entities whose latest timestamp is
\* not at midnight.
C1_Witness ==
    /\ pc = "done" /\ mode = "fixed"
    /\ Cardinality(RawIds) = 2
    /\ \E i \in DOMAIN raw : raw[i].ds.day = GlobalMaxDay /\ raw[i].ds.tod # 0
    /\ Len(daily_sales) = 2 * (WindowDays + 1)

\* C2: conservation: the value of every regularized row equals the sum of the
\* raw values of its entity on its calendar day, whatever the times of day.
C2_Conservation ==
    pc = "done" =>
        \A i \in DOMAIN daily_sales :
            daily_sales[i].y =
                RawSum(daily_sales[i].unique_id, DtDate(daily_sales[i].ds))

\* C3: a regularized row without raw rows on its (entity, day) is 0, and a row
\* with raw rows on its (entity, day) is not replaced by 0 (raw values are
\* positive here, so a day with raw rows has a nonzero sum).
C3_GapsAreZero ==
    pc = "done" =>
        \A i \in DOMAIN daily_sales :
            LET r == daily_sales[i]
            IN  (RawOn(r.unique_id, DtDate(r.ds)) = {}) <=> (r.y = 0)

\* C4: in fixed-window mode every entity id of the input gets the same
\* calendar, the days global_max_day - 180 .. global_max_day, whatever its own
\* first and last day; an entity without raw rows in the window is 0 on every
\* day; and no output row lies before the window or holds anything but 0 or
\* the raw sum of its own day, so rows before the window contribute nothing.
C4_SharedWindow ==
    (pc = "done" /\ mode = "fixed") =>
        LET first == GlobalMaxDay - WindowDays IN
        /\ OutIds = RawIds
        /\ \A id \in RawIds :
            /\ OutDays(id) = first..GlobalMaxDay
            /\ (\A d \in RawDays(id) : d < first) =>
                    \A i \in OutRows(id) : daily_sales[i].y = 0
        /\ \A i \in DOMAIN daily_sales :
            LET r == daily_sales[i]
            IN  /\ DtDate(r.ds) >= first
                /\ r.y \in {0, RawSum(r.unique_id, DtDate(r.ds))}

\* C4 witness: a fixed-window run where one entity has all its rows before the
\* window and another has a nonzero row in it.
C4_Witness ==
    /\ pc = "done" /\ mode = "fixed"
    /\ \E id \in RawIds : \A d \in RawDays(id) : d < GlobalMaxDay - WindowDays
    /\ \E i \in DOMAIN daily_sales : daily_sales[i].y # 0

\* C9: aggregation and regularization of an empty raw input completes without
\* raising and yields an empty frame.
C9_EmptyInputNoError ==
    (raw = <<>> /\ pc # "start") =>
        (pc = "done" /\ err = "none" /\ daily_sales = <<>>)

\* ------------------------------------------- adapter and handler: claims

\* C5: when the selected ids match no row of the series (the empty selection
\* among them), detect_anomalies and generate_forecast return an empty result
\* and the service's operation is not invoked in that call.
C5_EmptySubsetNoCall ==
    (pc = "adapter_returned" /\ SubsetDf(daily_sales, ret.selected) = <<>>) =>
        /\ ret.result = EmptyFrame
        /\ ret.raised = "none"
        /\ calls = [detect |-> 0, forecast |-> 0]

\* C5 witness: detect_anomalies has returned for a selection that names only
\* an id the series does not hold.
C5_Witness ==
    /\ pc = "adapter_returned"
    /\ ret.fn = "detect_anomalies"
    /\ ret.selected = {"Z"}
    /\ ret.result = EmptyFrame

\* The row of merged_df a card was built from.
CardRow(c) ==
    CHOOSE r \in SeqToSet(merged_df.rows) :
        r.unique_id = Cell(c.unique_id) /\ r.ds = Cell(c.ds)

\* C6: every card of a flagged row with actual value a and the service's
\* bounds l and u is a Spike when a > u, with magnitude a / u when u > 0 and a
\* when u <= 0, and otherwise a Dip with magnitude l / a when a > 0 and 0 when
\* a <= 0; a = 150, u = 100 is a Spike of 1.5 and a = 40, l = 100 a Dip of 2.5.
C6_SpikeOrDip ==
    /\ \A k \in DOMAIN insights :
        LET c == insights[k]
            row == CardRow(c)
            a == row.y[1]
            u == row["TimeGPT-hi-99"][1]
            l == row["TimeGPT-lo-99"][1]
            m == c.magnitude
        IN  /\ row.anomaly = Cell(1)
            /\ c.actual = a
            /\ m.den # 0
            /\ IF a > u
               THEN /\ c.direction = "Spike"
                    /\ IF u > 0 THEN m.num * u = a * m.den ELSE m.num = a * m.den
               ELSE /\ c.direction = "Dip"
                    /\ IF a > 0 THEN m.num * a = l * m.den ELSE m.num = 0
    /\ LET s == Classify(150, 80, 100)
       IN  s.direction = "Spike" /\ 2 * s.magnitude.num = 3 * s.magnitude.den
    /\ LET d == Classify(40, 100, 120)
       IN  d.direction = "Dip" /\ 2 * d.magnitude.num = 5 * d.magnitude.den

\* C6 witness: the cards shown hold a Spike over a positive upper bound and a
\* Dip of a positive value.
C6_Witness ==
    /\ pc = "returned"
    /\ \E k \in DOMAIN insights :
        insights[k].direction = "Spike" /\ insights[k].magnitude.den > 1
    /\ \E k \in DOMAIN insights :
        insights[k].direction = "Dip" /\ insights[k].actual > 0

\* The value daily_sales holds for the keys of a joined row.
BaseValue(r) ==
    LET i == CHOOSE j \in DOMAIN daily_sales :
                /\ daily_sales[j].unique_id = r.unique_id[1]
                /\ daily_sales[j].ds = r.ds[1]
    IN  daily_sales[i].y

\* The join has just been made: the steps after it leave the frames as they are.
JustJoined == pc \in {"forecast", "script_report"}

\* The rows of anomalies_df with the keys of a joined row.
ServiceRows(r) ==
    {a \in SeqToSet(anomalies_df.rows) : a.unique_id = r.unique_id /\ a.ds = r.ds}

\* C7: after the join every joined row has a base value column y that holds
\* the series' own value of its (entity, day), not a null and not the
\* service's copy; the service's value column, when it has one, is kept as
\* y_anomaly; and the left join keeps every row of the series.
C7_BaseValueKept ==
    (merged_df # None) =>
        /\ "y" \in SeqToSet(merged_df.columns)
        /\ ("y" \in SeqToSet(anomalies_df.columns)) =>
                "y_anomaly" \in SeqToSet(merged_df.columns)
        /\ \A k \in DOMAIN merged_df.rows : merged_df.rows[k].y # NaN
        /\ JustJoined =>
            \A k \in DOMAIN merged_df.rows :
                LET r == merged_df.rows[k]
                IN  /\ r.y = Cell(BaseValue(r))
                    /\ ("y" \in SeqToSet(anomalies_df.columns)) =>
                            \A a \in ServiceRows(r) : r.y_anomaly = a.y
        /\ (mode = "full") => Len(merged_df.rows) = Len(daily_sales)
        /\ (mode = "fixed") => Len(merged_df.rows) = Len(anomalies_df.rows)

\* C7 witness: the script's left join with a service that returns its own
\* value column and no record for some row of the series.
C7_Witness ==
    /\ mode = "full"
    /\ merged_df # None
    /\ "y_anomaly" \in SeqToSet(merged_df.columns)
    /\ \E k \in DOMAIN merged_df.rows :
        /\ merged_df.rows[k].anomaly = NaN
        /\ merged_df.rows[k].y # Cell(0)
    /\ \E k \in DOMAIN merged_df.rows :
        /\ merged_df.rows[k].anomaly # NaN
        /\ merged_df.rows[k].y_anomaly # merged_df.rows[k].y

\* C8: in app.main a failure of the anomaly call, of the forecast call or of a
\* step after them is caught: control is in the except clause, which shows the
\* failure as an error message (followed at most by the warning about the key)
\* and ends the request; nothing is left uncaught, and each operation of the
\* service is invoked at most once in the request.
C8_FailureCaughtNoRetry ==
    (mode = "fixed") =>
        /\ calls.detect <= 1
        /\ calls.forecast <= 1
        /\ err = "none"
        /\ pc # "raised"
        /\ (exc # "none") => pc \in {"except", "returned"}
        /\ (pc = "except") => (exc # "none" /\ ENABLED Main_Except)
        /\ (pc = "returned" /\ exc # "none") =>
                \E i \in DOMAIN messages :
                    /\ messages[i] = Msg("error", exc, 0)
                    /\ \/ i = Len(messages)
                       \/ /\ i = Len(messages) - 1
                          /\ messages[Len(messages)] = Msg("warning", "check your API key", 0)

\* C8 witness: the request has ended with the error message of a forecast call
\* that failed after a successful anomaly call.
C8_Witness ==
    /\ mode = "fixed"
    /\ pc = "returned"
    /\ exc = "ServiceError"
    /\ calls = [detect |-> 1, forecast |-> 1]
    /\ merged_df # None

\* The request has rendered its cards.
Rendered ==
    /\ mode = "fixed"
    /\ pc = "returned"
    /\ exc = "none"
    /\ merged_df # None

Flagged == SeqToSet(Anomalous(merged_df))

CardKeys == {<<insights[k].unique_id, insights[k].ds>> : k \in DOMAIN insights}

\* The cards are those of the MaxCards flagged rows with the latest days (all
\* when there are no more), latest day first, one card per row.
CardsAreLatest ==
    /\ Len(insights) = IF Cardinality(Flagged) < MaxCards
                       THEN Cardinality(Flagged) ELSE MaxCards
    /\ Cardinality(CardKeys) = Len(insights)
    /\ CardKeys \subseteq {<<r.unique_id[1], r.ds[1]>> : r \in Flagged}
    /\ \A k \in DOMAIN insights :
        /\ k > 1 => ~TsLess(insights[k - 1].ds, insights[k].ds)
        /\ \A r \in Flagged :
            <<r.unique_id[1], r.ds[1]>> \notin CardKeys => ~TsLess(insights[k].ds, r.ds[1])

\* The numbers the page reports in the notes under its cards.
Reported ==
    {messages[i].n : i \in {j \in DOMAIN messages :
        messages[j].kind = "info" /\ messages[j] # ActivePeriodInfo}}

\* C10 as claimed: the cards are those of the 6 latest flagged rows, latest
\* first, and with more than 6 flagged rows the page reports the count of the
\* remaining, not presented, anomalies.
C10_ReportsRemainder ==
    Rendered =>
        /\ CardsAreLatest
        /\ Cardinality(Flagged) > MaxCards => Cardinality(Flagged) - MaxCards \in Reported

\* C10 as amended: the cards are those of the 6 latest flagged rows, latest
\* first, and with more than 6 flagged rows the page reports the total number
\* of flagged rows ("top 6 of n total"); with 6 or fewer it reports none.
C10_ReportsTotal ==
    Rendered =>
        /\ CardsAreLatest
        /\ Reported = IF Cardinality(Flagged) > MaxCards
                      THEN {Cardinality(Flagged)} ELSE {}

\* C10 witness: seven rows are flagged, six cards are shown, and the day of the
\* last card is also the day of the flagged row left out.
C10_Witness ==
    /\ Rendered
    /\ Cardinality(Flagged) = MaxCards + 1
    /\ Len(insights) = MaxCards
    /\ \E r \in Flagged :
        /\ <<r.unique_id[1], r.ds[1]>> \notin CardKeys
        /\ r.ds[1] = insights[MaxCards].ds

\* ------------------------------------------------ get_business_tip: claims

\* The keyword groups in the order they are tried, and one label of each.
TipGroups == <<{"beauty", "cosmetic"}, {"electronic", "tech"}, {"clothing", "fashion"}>>
TipLabels == <<"beauty", "tech", "clothing">>

GroupMatches(g, label) == \E kw \in TipGroups[g] : Contains(StrLower(label), kw)

\* The first group that matches the label, 0 when none does.
FirstGroup(label) ==
    IF \E g \in DOMAIN TipGroups : GroupMatches(g, label)
    THEN CHOOSE g \in DOMAIN TipGroups :
            GroupMatches(g, label) /\ \A h \in 1..(g - 1) : ~GroupMatches(h, label)
    ELSE 0

\* A label of a group gets the recommendation of the first group that matches
\* it, whatever the magnitude, and the groups' recommendations differ.
FirstMatchWins ==
    (pc = "tip_returned" /\ FirstGroup(ret.category) # 0) =>
        LET g == FirstGroup(ret.category)
        IN  /\ ret.result = get_business_tip(TipLabels[g], ret.direction, ret.magnitude)
            /\ \A m \in Magnitudes :
                    get_business_tip(ret.category, ret.direction, m) = ret.result
            /\ \A h \in DOMAIN TipGroups \ {g} :
                    get_business_tip(TipLabels[h], ret.direction, ret.magnitude)
                        # ret.result

\* A label of no group gets a message that contains the magnitude.
FallbackHasMagnitude ==
    (pc = "tip_returned" /\ FirstGroup(ret.category) = 0) =>
        Contains(ret.result, Fmt1(ret.magnitude))

\* C11: get_business_tip matches the lower-cased label against the keyword
\* groups beauty/cosmetic, electronic/tech, clothing/fashion in that order, the
\* first matching group deciding the recommendation whatever the magnitude;
\* a label of no group gets, for Spike and for Dip alike, a generic message
\* that contains the magnitude.
C11_TipByFirstGroup == FirstMatchWins /\ FallbackHasMagnitude

\* A label of two groups, answered with the recommendation of the earlier one.
C11_TwoGroupsReached ==
    /\ pc = "tip_returned"
    /\ GroupMatches(2, ret.category)
    /\ GroupMatches(3, ret.category)
    /\ FirstGroup(ret.category) = 2

\* A Dip of a label of no group, answered.
C11_DipFallbackReached ==
    /\ pc = "tip_returned"
    /\ ret.direction = "Dip"
    /\ FirstGroup(ret.category) = 0
    /\ ret.magnitude = Ratio(5, 4)
    /\ ~Contains(ret.result, "1.2")

\* ------------------------------------------- app.main: the order of calls

GuardsPass == api_key # "" /\ selected_items # {}

\* The request is past its guards' decision.
PastGuards == pc \in {"forecast", "render", "except", "returned"}

\* C12: in a request of app.main no operation of the service is invoked unless
\* the credential is non-empty and an entity is selected, and a request that
\* fails either guard ends with its warning, no call, no error and no card;
\* when both hold the anomaly detection is invoked first, and the forecast is
\* invoked only with the toggle on, after the detection has returned without
\* error and its result has been joined: a failed detection or join leaves the
\* forecast uninvoked.
C12_GuardsThenDetectThenForecast ==
    (mode = "fixed") =>
        /\ (calls.detect > 0 \/ calls.forecast > 0) => GuardsPass
        /\ (pc = "returned" /\ ~GuardsPass) =>
                /\ calls = [detect |-> 0, forecast |-> 0]
                /\ messages # <<>>
                /\ messages[Len(messages)].kind = "warning"
                /\ \A i \in DOMAIN messages : messages[i].kind # "error"
                /\ exc = "none"
                /\ insights = <<>>
                /\ merged_df = None /\ forecast_df = None
        /\ (PastGuards /\ GuardsPass) => calls.detect = 1
        /\ (calls.forecast > 0) =>
                /\ show_forecast
                /\ calls.detect = 1
                /\ anomalies_df # None
                /\ merged_df # None
        /\ (merged_df = None) => (calls.forecast = 0 /\ forecast_df = None)
        /\ (pc = "forecast") => (exc = "none" /\ merged_df # None /\ calls.forecast = 0)

\* C12 witness: the forecast has been invoked and has answered, after the
\* detection and the join, and the request is about to render.
C12_Witness ==
    /\ mode = "fixed"
    /\ pc = "render"
    /\ show_forecast
    /\ calls = [detect |-> 1, forecast |-> 1]
    /\ merged_df # None
    /\ forecast_df # None
    /\ exc = "none"

\* A request whose detection failed has ended without a forecast call, the
\* toggle on.
C12_FailedDetectionReached ==
    /\ mode = "fixed"
    /\ pc = "returned"
    /\ show_forecast
    /\ exc # "none"
    /\ calls = [detect |-> 1, forecast |-> 0]

====
